---- MODULE Spec2Model ----
(***************************************************************************)
(* A model of folly/io/async/Request.cpp: RequestData reference counting,  *)
(* the RequestContext data store (requestData_ / callbackData_ guarded by  *)
(* one upgradeable reader/writer lock), the context switch protocol        *)
(* (setContext) and the shallow copy (setShallowCopyContext).              *)
(*                                                                         *)
(* A lane is a thread: it owns one thread-local slot (getStaticContext)    *)
(* and a call stack of frames.  Every frame is one call of a method of     *)
(* Request.cpp; its pc names the statement the call executes next.         *)
(***************************************************************************)
EXTENDS Integers, Sequences, FiniteSets, TLC

\* ------------------------------------------------------------------ bounds
NKeys == 2
MaxData == 3
MaxCtx == 4
MaxDepth == 2
MaxCalls == 5
ConcCalls == 1

NLanes == 4
SwitchCalls == 1

Lanes == 1..NLanes
Keys == 1..NKeys
Data == 1..MaxData
Contexts == 1..MaxCtx

\* The null pointer: an empty unique_ptr / SharedPtr / shared_ptr.
nullptr == 0
\* The identity of the function-local static defaultContext.
defaultContext == 1

VARIABLES
  mem,        \* the heap: every RequestContext's state_ and every RequestData
  rlocks,     \* [context -> number of shared holders of state_'s lock]
  ulock,      \* [context -> set of lanes holding the lock in upgrade mode]
  wlock,      \* [context -> set of lanes holding (or acquiring) it exclusively]
  staticCtx,  \* [lane -> the lane's thread-local shared_ptr<RequestContext>]
  stack,      \* [lane -> sequence of frames, the innermost call last]
  budget      \* [lane -> the number of calls the lane's caller may still make]

vars == <<mem, rlocks, ulock, wlock, staticCtx, stack, budget>>

\* ------------------------------------------------------------ small helpers
Top(l) == stack[l][Len(stack[l])]
Idle(l) == stack[l] = <<>>
Busy(l) == stack[l] # <<>>
At(l, p) == Busy(l) /\ Top(l).pc = p

\* The frame of a call that has not started executing.
\* arg keeps the data the call was given; pre keeps the heap as it was when
\* doSetContextData or clearContextData was entered.
Frame(op, pc, ctx, key, data, beh) ==
  [op |-> op, pc |-> pc, ctx |-> ctx, key |-> key, data |-> data, beh |-> beh,
   conflict |-> FALSE, ret |-> nullptr, ok |-> FALSE,
   newCtx |-> nullptr, curCtx |-> nullptr,
   requestData |-> nullptr, inHook |-> "none", via |-> "none",
   arg |-> data, pre |-> nullptr]

\* The frames of lane l with the innermost frame replaced by f.
SetTop(l, f) == [stack EXCEPT ![l] = [@ EXCEPT ![Len(@)] = f]]

\* A std::map as a function on the keys present.
MapPut(f, k, v) == [x \in (DOMAIN f) \cup {k} |-> IF x = k THEN v ELSE f[x]]
MapErase(f, k) == [x \in (DOMAIN f) \ {k} |-> f[x]]
EmptyMap == [x \in {} |-> nullptr]

\* A std::set<RequestData*> iterates in pointer order.
RECURSIVE SortedSeq(_)
SortedSeq(S) ==
  IF S = {} THEN <<>>
  ELSE LET lo == CHOOSE x \in S : \A y \in S : x <= y
       IN <<lo>> \o SortedSeq(S \ {lo})

\* One entry of a lane's log: a callback (onSet, onUnset) or a release of an
\* owning handle, with the lane's slot at that moment and whether the lane
\* then held the lock of the store it is operating on.
Event(cb, d, slot, locked) ==
  [cb |-> cb, data |-> d, slot |-> slot, locked |-> locked]

\* cb is called on every element of the sequence ds, in order.
RECURSIVE FireAll(_, _, _, _, _)
FireAll(m, l, cb, ds, slot) ==
  IF ds = <<>> THEN m
  ELSE FireAll([m EXCEPT !.fired[l] = Append(@, Event(cb, Head(ds), slot, FALSE))],
               l, cb, Tail(ds), slot)

\* ------------------------------------------------------- lock (SharedMutex)
\* Shared mode is refused while a lane holds or is acquiring exclusive mode;
\* upgrade mode excludes upgrade and exclusive mode and admits readers; the
\* upgrade to exclusive waits for the readers to drain.
Holds(l, c) == l \in wlock[c] \cup ulock[c]
CanRLock(c) == wlock[c] = {}
CanULock(c) == wlock[c] = {} /\ ulock[c] = {}
Drained(c) == rlocks[c] = 0

\* ------------------------------------------------- RequestData ownership
\* Mutant of DestructPtr: the test of the value before the decrement is
\* missing and every release deletes.
DestructPtr_Eager(m, l, ptr, slot, locked) ==
  IF ptr = nullptr THEN m
  ELSE [m EXCEPT !.keepAliveCounter_[ptr] = @ - 1,
                 !.deleted[ptr] = @ + 1,
                 !.fired[l] = Append(@, Event("release", ptr, slot, locked))]

\* RequestData::DestructPtr::operator(): fetch_sub, the DCHECK on the value
\* before the decrement, delete when that value was 1.
DestructPtr(m, l, ptr, slot, locked) ==
  IF ptr = nullptr THEN m
  ELSE LET keepAliveCounter == m.keepAliveCounter_[ptr]
       IN [m EXCEPT !.keepAliveCounter_[ptr] = keepAliveCounter - 1,
                    !.dcheckFailed = @ \/ ~(keepAliveCounter > 0),
                    !.deleted[ptr] = IF keepAliveCounter = 1 THEN @ + 1 ELSE @,
                    !.fired[l] = Append(@, Event("release", ptr, slot, locked))]

\* RequestData::constructPtr: fetch_add and the DCHECK on the value before it.
constructPtr(m, ptr) ==
  IF ptr = nullptr THEN m
  ELSE LET keepAliveCounter == m.keepAliveCounter_[ptr]
       IN [m EXCEPT !.keepAliveCounter_[ptr] = keepAliveCounter + 1,
                    !.dcheckFailed = @ \/ ~(keepAliveCounter >= 0)]

\* The unique_ptr<RequestData> parameter of setContextData,
\* setContextDataIfAbsent and overwriteContextData goes out of scope: what
\* doSetContextData did not release() is deleted.
DeleteOwned(m, data) ==
  IF data = nullptr THEN m ELSE [m EXCEPT !.deleted[data] = @ + 1]

\* ------------------------------------------- doSetContextData, by statement
\* Mutant of Find: an entry that holds an empty SharedPtr counts as absent.
Find_NonNull(m, c, val) ==
  val \in DOMAIN m.requestData_[c] /\ m.requestData_[c][val] # nullptr

\* ulock->requestData_.find(val) != end()
Find(m, c, val) == val \in DOMAIN m.requestData_[c]

\* if (it->second) if (it->second->hasCallback()) it->second->onUnset();
SetUnsetOld(m, l, c, val, slot, locked) ==
  LET old == m.requestData_[c][val]
  IN IF old # nullptr /\ m.hasCallback[old]
     THEN [m EXCEPT !.fired[l] = Append(@, Event("onUnset", old, slot, locked))]
     ELSE m

\* Mutant of SetResetOld: the erase from callbackData_ is missing.
SetResetOld_KeepCallback(m, l, c, val, slot, locked) ==
  LET old == m.requestData_[c][val]
  IN IF old = nullptr THEN m
     ELSE DestructPtr([m EXCEPT !.requestData_[c][val] = nullptr],
                      l, old, slot, locked)

\* wlock->callbackData_.erase(it->second.get()); it->second.reset(nullptr);
SetResetOld(m, l, c, val, slot, locked) ==
  LET old == m.requestData_[c][val]
  IN IF old = nullptr THEN m
     ELSE DestructPtr(
            [m EXCEPT !.callbackData_[c] =
                        IF m.hasCallback[old] THEN @ \ {old} ELSE @,
                      !.requestData_[c][val] = nullptr],
            l, old, slot, locked)

\* Mutant of SetInstallNew: an empty unique_ptr is not stored.
SetInstallNew_SkipNull(m, l, c, val, data, slot, locked) ==
  IF data = nullptr THEN m
  ELSE LET m1 == IF m.hasCallback[data]
                 THEN [m EXCEPT !.callbackData_[c] = @ \cup {data},
                                !.fired[l] = Append(@, Event("onSet", data, slot, locked))]
                 ELSE m
       IN [constructPtr(m1, data) EXCEPT !.requestData_[c] = MapPut(@, val, data)]

\* if (data && data->hasCallback()) { callbackData_.insert; data->onSet(); }
\* requestData_[val] = constructPtr(data.release());
SetInstallNew(m, l, c, val, data, slot, locked) ==
  LET m1 == IF data # nullptr /\ m.hasCallback[data]
            THEN [m EXCEPT !.callbackData_[c] = @ \cup {data},
                           !.fired[l] = Append(@, Event("onSet", data, slot, locked))]
            ELSE m
      m2 == constructPtr(m1, data)
  IN [m2 EXCEPT !.requestData_[c] = MapPut(@, val, data)]

\* Mutant of ReturnsEarly: SET_IF_ABSENT does not return on a present key.
ReturnsEarly_Never(found, behaviour) == FALSE

\* The early return of SET_IF_ABSENT on a key that is present.
ReturnsEarly(found, behaviour) == found /\ behaviour = "SET_IF_ABSENT"

\* Mutants of ReturnsAfterReset: the return after the reset is missing, or
\* is taken by OVERWRITE too.
ReturnsAfterReset_Never(behaviour) == FALSE
ReturnsAfterReset_Both(behaviour) == behaviour # "SET_IF_ABSENT"

\* After the displaced entry is reset, SET returns without installing data.
ReturnsAfterReset(behaviour) == behaviour = "SET"

\* std::make_unique of a RequestData subclass with or without callbacks (its
\* keepAliveCounter_ is 0), or no allocation for an empty unique_ptr.
MakeData(m, kind) ==
  IF kind = "null" THEN m
  ELSE [m EXCEPT !.nextData = @ + 1,
                 !.hasCallback[m.nextData] = (kind = "callback")]

\* The whole of setContextData / setContextDataIfAbsent /
\* overwriteContextData as one function of the heap: doSetContextData's
\* statements in program order, then the destruction of the parameter.
doSetContextData(m, l, c, val, data, behaviour, slot) ==
  LET found == Find(m, c, val)
      m1 == IF found
            THEN SetResetOld(SetUnsetOld(m, l, c, val, slot, TRUE),
                             l, c, val, slot, TRUE)
            ELSE m
  IN IF ReturnsEarly(found, behaviour)
     THEN [mem |-> DeleteOwned(m, data), ok |-> FALSE]
     ELSE IF found /\ ReturnsAfterReset(behaviour)
     THEN [mem |-> DeleteOwned(m1, data), ok |-> TRUE]
     ELSE [mem |-> SetInstallNew(m1, l, c, val, data, slot, TRUE), ok |-> TRUE]

\* hasContextData and getContextData.
hasContextData(m, c, val) == val \in DOMAIN m.requestData_[c]
getContextData(m, c, val) ==
  IF val \in DOMAIN m.requestData_[c] THEN m.requestData_[c][val] ELSE nullptr

\* RequestContext::get(): the slot's context, or the static defaultContext.
get(l) == IF staticCtx[l] = nullptr THEN defaultContext ELSE staticCtx[l]

\* A caller makes a RequestData (or passes an empty unique_ptr) and calls
\* setContextData / setContextDataIfAbsent / overwriteContextData on a context.
StartSet(l, c, val, kind, behaviour) ==
  /\ Idle(l)
  /\ budget[l] > 0
  /\ budget' = [budget EXCEPT ![l] = @ - 1]
  /\ c \in mem.live
  /\ kind # "null" => mem.nextData <= MaxData
  /\ LET data == IF kind = "null" THEN nullptr ELSE mem.nextData
     IN /\ mem' = MakeData(mem, kind)
        /\ stack' = [stack EXCEPT ![l] =
             <<[Frame("doSetContextData", "set_ulock", c, val, data, behaviour)
                  EXCEPT !.pre = MakeData(mem, kind)]>>]
  /\ UNCHANGED <<rlocks, ulock, wlock, staticCtx>>

\* auto ulock = state_.ulock(); find; the SET_IF_ABSENT early return.
SetULock(l) ==
  /\ At(l, "set_ulock")
  /\ LET f == Top(l)
         found == Find(mem, f.ctx, f.key)
     IN /\ CanULock(f.ctx)
        /\ IF ReturnsEarly(found, f.beh)
           THEN /\ stack' = SetTop(l, [f EXCEPT !.pc = "set_exit", !.ok = FALSE])
                /\ UNCHANGED ulock
           ELSE /\ stack' = SetTop(l, [f EXCEPT !.pc = "set_upgrade",
                                                !.conflict = found])
                /\ ulock' = [ulock EXCEPT ![f.ctx] = {l}]
  /\ UNCHANGED <<budget, mem, rlocks, wlock, staticCtx>>

\* auto wlock = ulock.moveFromUpgradeToWrite(): exclusive mode is claimed;
\* the first statement under it waits for the readers to drain.
SetUpgrade(l) ==
  /\ At(l, "set_upgrade")
  /\ LET f == Top(l)
     IN /\ ulock' = [ulock EXCEPT ![f.ctx] = {}]
        /\ wlock' = [wlock EXCEPT ![f.ctx] = {l}]
        /\ stack' = SetTop(l, [f EXCEPT !.pc = IF f.conflict THEN "set_unset"
                                                ELSE "set_install"])
  /\ UNCHANGED <<budget, mem, rlocks, staticCtx>>

\* if (conflict) { ... it->second->onUnset();
SetUnset(l) ==
  /\ At(l, "set_unset")
  /\ LET f == Top(l)
         old == mem.requestData_[f.ctx][f.key]
     IN /\ Drained(f.ctx)
        /\ mem' = SetUnsetOld(mem, l, f.ctx, f.key, staticCtx[l],
                                  Holds(l, f.ctx))
        /\ stack' = SetTop(l, [f EXCEPT !.pc = "set_reset",
             !.inHook = IF old # nullptr /\ mem.hasCallback[old]
                        THEN "onUnset" ELSE "none"])
  /\ UNCHANGED <<budget, rlocks, ulock, wlock, staticCtx>>

\* ... callbackData_.erase; it->second.reset(nullptr); }
\* if (behaviour == SET) return true;
SetReset(l) ==
  /\ At(l, "set_reset")
  /\ LET f == Top(l)
         old == mem.requestData_[f.ctx][f.key]
         last == old # nullptr /\ mem.keepAliveCounter_[old] = 1
         hook == IF last THEN "dtor" ELSE "none"
     IN /\ mem' = SetResetOld(mem, l, f.ctx, f.key, staticCtx[l],
                                  Holds(l, f.ctx))
        /\ IF ReturnsAfterReset(f.beh)
           THEN /\ stack' = SetTop(l, [f EXCEPT !.pc = "set_unlock", !.ok = TRUE,
                                                !.inHook = hook])
           ELSE /\ stack' = SetTop(l, [f EXCEPT !.pc = "set_install",
                                                !.inHook = hook])
  /\ UNCHANGED <<budget, rlocks, ulock, wlock, staticCtx>>

\* The return of SET after a conflict: wlock goes out of scope.
SetUnlock(l) ==
  /\ At(l, "set_unlock")
  /\ LET f == Top(l)
     IN /\ wlock' = [wlock EXCEPT ![f.ctx] = {}]
        /\ stack' = SetTop(l, [f EXCEPT !.pc = "set_exit", !.inHook = "none"])
  /\ UNCHANGED <<budget, mem, rlocks, ulock, staticCtx>>

\* The callback registration, the install, return true (wlock released).
SetInstall(l) ==
  /\ At(l, "set_install")
  /\ LET f == Top(l)
     IN /\ Drained(f.ctx)
        /\ mem' = SetInstallNew(mem, l, f.ctx, f.key, f.data, staticCtx[l],
                                    Holds(l, f.ctx))
        /\ wlock' = [wlock EXCEPT ![f.ctx] = {}]
        /\ stack' = SetTop(l, [f EXCEPT !.pc = "set_exit", !.ok = TRUE,
                                        !.data = nullptr, !.inHook = "none"])
  /\ UNCHANGED <<budget, rlocks, ulock, staticCtx>>

\* setContextData / setContextDataIfAbsent / overwriteContextData return:
\* their unique_ptr parameter is destroyed.
SetExit(l) ==
  /\ At(l, "set_exit")
  /\ LET f == Top(l)
     IN /\ mem' = DeleteOwned(mem, f.data)
        /\ stack' = SetTop(l, [f EXCEPT !.pc = "done",
             !.inHook = IF f.data # nullptr THEN "dtor" ELSE "none"])
  /\ UNCHANGED <<budget, rlocks, ulock, wlock, staticCtx>>

\* --------------------------------------------- clearContextData, by statement
\* if (it->second && it->second->hasCallback()) it->second->onUnset();
ClearUnsetOld(m, l, c, val, slot, locked) ==
  LET old == m.requestData_[c][val]
  IN IF old # nullptr /\ m.hasCallback[old]
     THEN [m EXCEPT !.fired[l] = Append(@, Event("onUnset", old, slot, locked))]
     ELSE m

\* Mutants of ClearEraseOld: the entry is erased from every context that
\* holds the same pointer; the erase from requestData_ is missing.
ClearEraseOld_Shared(m, c, val) ==
  LET old == m.requestData_[c][val]
  IN [m EXCEPT !.callbackData_ =
                 [x \in Contexts |-> IF old # nullptr /\ m.hasCallback[old]
                                     THEN @[x] \ {old} ELSE @[x]],
               !.requestData_ =
                 [x \in Contexts |->
                    IF val \in DOMAIN @[x] /\ @[x][val] = old
                    THEN MapErase(@[x], val) ELSE @[x]]]

ClearEraseOld_KeepEntry(m, c, val) ==
  LET old == m.requestData_[c][val]
  IN [m EXCEPT !.callbackData_[c] =
                 IF old # nullptr /\ m.hasCallback[old] THEN @ \ {old} ELSE @,
               !.requestData_[c][val] = nullptr]

\* Mutant of ClearEraseOld: the erase from callbackData_ is missing.
ClearEraseOld_KeepCallback(m, c, val) ==
  [m EXCEPT !.requestData_[c] = MapErase(@, val)]

\* wlock->callbackData_.erase(it->second.get());
\* requestData = std::move(it->second); wlock->requestData_.erase(it);
ClearEraseOld(m, c, val) ==
  LET old == m.requestData_[c][val]
  IN [m EXCEPT !.callbackData_[c] =
                 IF old # nullptr /\ m.hasCallback[old] THEN @ \ {old} ELSE @,
               !.requestData_[c] = MapErase(@, val)]

\* Mutant of ClearBlockEnd: the block does not end before requestData is
\* destroyed, and the lock is still held.
ClearBlockEnd_Held(c) == wlock

\* The closing brace of the block that declares ulock and wlock: the lock
\* of context c is released.
ClearBlockEnd(c) == [wlock EXCEPT ![c] = {}]

StartClear(l, c, val) ==
  /\ Idle(l)
  /\ budget[l] > 0
  /\ budget' = [budget EXCEPT ![l] = @ - 1]
  /\ c \in mem.live
  /\ stack' = [stack EXCEPT ![l] =
       <<[Frame("clearContextData", "clear_ulock", c, val, nullptr, "CLEAR")
            EXCEPT !.pre = mem]>>]
  /\ UNCHANGED <<mem, rlocks, ulock, wlock, staticCtx>>

\* auto ulock = state_.ulock(); find; return when the key is absent.
ClearULock(l) ==
  /\ At(l, "clear_ulock")
  /\ LET f == Top(l)
     IN /\ CanULock(f.ctx)
        /\ IF Find(mem, f.ctx, f.key)
           THEN /\ stack' = SetTop(l, [f EXCEPT !.pc = "clear_upgrade",
                                                !.conflict = TRUE])
                /\ ulock' = [ulock EXCEPT ![f.ctx] = {l}]
           ELSE /\ stack' = SetTop(l, [f EXCEPT !.pc = "done"])
                /\ UNCHANGED ulock
  /\ UNCHANGED <<budget, mem, rlocks, wlock, staticCtx>>

\* auto wlock = ulock.moveFromUpgradeToWrite();
ClearUpgrade(l) ==
  /\ At(l, "clear_upgrade")
  /\ LET f == Top(l)
     IN /\ ulock' = [ulock EXCEPT ![f.ctx] = {}]
        /\ wlock' = [wlock EXCEPT ![f.ctx] = {l}]
        /\ stack' = SetTop(l, [f EXCEPT !.pc = "clear_unset"])
  /\ UNCHANGED <<budget, mem, rlocks, staticCtx>>

\* it->second->onUnset(), once the readers have drained.
ClearUnset(l) ==
  /\ At(l, "clear_unset")
  /\ LET f == Top(l)
         old == mem.requestData_[f.ctx][f.key]
     IN /\ Drained(f.ctx)
        /\ mem' = ClearUnsetOld(mem, l, f.ctx, f.key, staticCtx[l],
                                    Holds(l, f.ctx))
        /\ stack' = SetTop(l, [f EXCEPT !.pc = "clear_erase",
             !.inHook = IF old # nullptr /\ mem.hasCallback[old]
                        THEN "onUnset" ELSE "none"])
  /\ UNCHANGED <<budget, rlocks, ulock, wlock, staticCtx>>

\* callbackData_.erase; the handle is moved out; the entry is erased; the
\* block ends and wlock is released.
ClearErase(l) ==
  /\ At(l, "clear_erase")
  /\ LET f == Top(l)
     IN /\ mem' = ClearEraseOld(mem, f.ctx, f.key)
        /\ wlock' = ClearBlockEnd(f.ctx)
        /\ stack' = SetTop(l, [f EXCEPT !.pc = "clear_release",
             !.requestData = mem.requestData_[f.ctx][f.key], !.inHook = "none"])
  /\ UNCHANGED <<budget, rlocks, ulock, staticCtx>>

\* clearContextData returns: the local SharedPtr requestData is destroyed.
ClearRelease(l) ==
  /\ At(l, "clear_release")
  /\ LET f == Top(l)
         last == f.requestData # nullptr
                   /\ mem.keepAliveCounter_[f.requestData] = 1
     IN /\ mem' = DestructPtr(mem, l, f.requestData, staticCtx[l],
                              Holds(l, f.ctx))
        /\ stack' = SetTop(l, [f EXCEPT !.pc = "done", !.requestData = nullptr,
             !.inHook = IF last THEN "dtor" ELSE "none"])
  /\ UNCHANGED <<budget, rlocks, ulock, wlock, staticCtx>>

\* ------------------------------------------------------------- setContext
\* exec_set_difference: the elements of data on which exec is called, in
\* order; data and other are the two sets in iteration order.
\* Mutant of exec_set_difference: exec is called on every element of data.
exec_set_difference_All(data, other) == data

RECURSIVE exec_set_difference(_, _)
exec_set_difference(data, other) ==
  IF data = <<>> THEN <<>>
  ELSE IF other = <<>> \/ Head(data) < Head(other)
       THEN <<Head(data)>> \o exec_set_difference(Tail(data), other)
  ELSE IF Head(other) < Head(data)
       THEN exec_set_difference(data, Tail(other))
  ELSE exec_set_difference(Tail(data), Tail(other))

\* if (newCtx == staticCtx) return newCtx;
SameContext(newCtx, cur) == newCtx = cur

\* Mutant of InstallSlot: the assignment to the slot is missing.
InstallSlot_Missing(l, newCtx) == staticCtx

\* staticCtx = newCtx;
InstallSlot(l, newCtx) == [staticCtx EXCEPT ![l] = newCtx]

\* A caller passes a shared_ptr (a live context other than the static
\* defaultContext, or an empty one) to setContext.
StartSetContext(l, newCtx) ==
  /\ Idle(l)
  /\ budget[l] > 0
  /\ budget' = [budget EXCEPT ![l] = @ - 1]
  /\ newCtx \in (mem.live \ {defaultContext}) \cup {nullptr}
  /\ LET cur == staticCtx[l]
         f == Frame("setContext", "done", nullptr, nullptr, nullptr, "SWITCH")
     IN stack' = [stack EXCEPT ![l] =
          IF SameContext(newCtx, cur)
          THEN <<[f EXCEPT !.ret = newCtx, !.newCtx = newCtx, !.curCtx = cur]>>
          ELSE <<[f EXCEPT !.newCtx = newCtx, !.curCtx = cur,
                           !.pc = IF newCtx # nullptr /\ cur # nullptr
                                  THEN "sc_lock_new"
                                  ELSE IF cur # nullptr THEN "sc_fb_unset"
                                  ELSE "sc_install"]>>]
  /\ UNCHANGED <<mem, rlocks, ulock, wlock, staticCtx>>

\* auto newLock = newCtx->state_.rlock();
ScLockNew(l) ==
  /\ At(l, "sc_lock_new")
  /\ LET f == Top(l)
     IN /\ CanRLock(f.newCtx)
        /\ rlocks' = [rlocks EXCEPT ![f.newCtx] = @ + 1]
        /\ stack' = SetTop(l, [f EXCEPT !.pc = "sc_lock_cur"])
  /\ UNCHANGED <<budget, mem, ulock, wlock, staticCtx>>

\* auto curLock = curCtx->state_.rlock();
ScLockCur(l) ==
  /\ At(l, "sc_lock_cur")
  /\ LET f == Top(l)
     IN /\ CanRLock(f.curCtx)
        /\ rlocks' = [rlocks EXCEPT ![f.curCtx] = @ + 1]
        /\ stack' = SetTop(l, [f EXCEPT !.pc = "sc_unset"])
  /\ UNCHANGED <<budget, mem, ulock, wlock, staticCtx>>

\* exec_set_difference(curData, newData, onUnset);
ScUnset(l) ==
  /\ At(l, "sc_unset")
  /\ LET f == Top(l)
     IN /\ mem' = FireAll(mem, l, "onUnset",
                    exec_set_difference(SortedSeq(mem.callbackData_[f.curCtx]),
                                        SortedSeq(mem.callbackData_[f.newCtx])),
                    staticCtx[l])
        /\ stack' = SetTop(l, [f EXCEPT !.pc = "sc_install"])
  /\ UNCHANGED <<budget, rlocks, ulock, wlock, staticCtx>>

\* curCtx->onUnset(), the path taken when newCtx is empty: under the read
\* lock of RequestContext::onUnset, every element of callbackData_.
ScFbUnset(l) ==
  /\ At(l, "sc_fb_unset")
  /\ LET f == Top(l)
     IN /\ CanRLock(f.curCtx)
        /\ mem' = FireAll(mem, l, "onUnset",
                          SortedSeq(mem.callbackData_[f.curCtx]), staticCtx[l])
        /\ stack' = SetTop(l, [f EXCEPT !.pc = "sc_install"])
  /\ UNCHANGED <<budget, rlocks, ulock, wlock, staticCtx>>

\* staticCtx = newCtx; (on either path)
ScInstall(l) ==
  /\ At(l, "sc_install")
  /\ LET f == Top(l)
     IN /\ staticCtx' = InstallSlot(l, f.newCtx)
        /\ stack' = SetTop(l,
             IF f.newCtx # nullptr /\ f.curCtx # nullptr
             THEN [f EXCEPT !.pc = "sc_set"]
             ELSE IF f.newCtx # nullptr THEN [f EXCEPT !.pc = "sc_fb_set"]
             ELSE [f EXCEPT !.pc = "done", !.ret = f.curCtx])
  /\ UNCHANGED <<budget, mem, rlocks, ulock, wlock>>

\* exec_set_difference(newData, curData, onSet); both read locks are
\* released; return curCtx.
ScSet(l) ==
  /\ At(l, "sc_set")
  /\ LET f == Top(l)
     IN /\ mem' = FireAll(mem, l, "onSet",
                    exec_set_difference(SortedSeq(mem.callbackData_[f.newCtx]),
                                        SortedSeq(mem.callbackData_[f.curCtx])),
                    staticCtx[l])
        /\ rlocks' = [rlocks EXCEPT ![f.newCtx] = @ - 1, ![f.curCtx] = @ - 1]
        /\ stack' = SetTop(l, [f EXCEPT !.pc = "done", !.ret = f.curCtx])
  /\ UNCHANGED <<budget, ulock, wlock, staticCtx>>

\* newCtx->onSet(), the path taken when the slot was empty; return curCtx.
ScFbSet(l) ==
  /\ At(l, "sc_fb_set")
  /\ LET f == Top(l)
     IN /\ CanRLock(f.newCtx)
        /\ mem' = FireAll(mem, l, "onSet",
                          SortedSeq(mem.callbackData_[f.newCtx]), staticCtx[l])
        /\ stack' = SetTop(l, [f EXCEPT !.pc = "done", !.ret = f.curCtx])
  /\ UNCHANGED <<budget, rlocks, ulock, wlock, staticCtx>>

\* ------------------------------------------------- setShallowCopyContext
\* for (entry : parentLock->requestData_)
\*   childLock->requestData_[entry.first] = constructPtr(entry.second.get());
\* Mutant of CopyEntries: the raw pointers are stored without constructPtr.
CopyEntries_NoAcquire(m, parent, child, keys) ==
  [m EXCEPT !.requestData_[child] = m.requestData_[parent]]

RECURSIVE CopyEntries(_, _, _, _)
CopyEntries(m, parent, child, keys) ==
  IF keys = <<>> THEN m
  ELSE LET k == Head(keys)
           m1 == constructPtr(m, m.requestData_[parent][k])
       IN CopyEntries(
            [m1 EXCEPT !.requestData_[child] =
                         MapPut(@, k, m.requestData_[parent][k])],
            parent, child, Tail(keys))

\* Mutant of ShallowCopy: with an empty slot the static defaultContext is
\* copied.
ShallowCopy_OfCurrent(m, parent, child) ==
  LET p == IF parent = nullptr THEN defaultContext ELSE parent
  IN CopyEntries([m EXCEPT !.callbackData_[child] = m.callbackData_[p]],
                 p, child, SortedSeq(DOMAIN m.requestData_[p]))

\* The child's state_ after the if (parent) block.
ShallowCopy(m, parent, child) ==
  IF parent = nullptr THEN m
  ELSE CopyEntries(
         [m EXCEPT !.callbackData_[child] = m.callbackData_[parent]],
         parent, child, SortedSeq(DOMAIN m.requestData_[parent]))

\* Mutant of SwapReturn: the new child is returned.
SwapReturn_Child(parent, child) == child

\* std::swap(child, parent); return child; the value returned is the
\* context that was in the slot.
SwapReturn(parent, child) == parent

\* setShallowCopyContext: make the child, copy under the parent's read lock,
\* swap the child into the slot, return the previous context.
setShallowCopyContext(l) ==
  /\ Idle(l)
  /\ budget[l] > 0
  /\ budget' = [budget EXCEPT ![l] = @ - 1]
  /\ mem.nextCtx <= MaxCtx
  /\ LET parent == staticCtx[l]
         child == mem.nextCtx
     IN /\ parent # nullptr => CanRLock(parent)
        /\ mem' = ShallowCopy([mem EXCEPT !.nextCtx = @ + 1,
                                          !.live = @ \cup {child}],
                              parent, child)
        /\ staticCtx' = [staticCtx EXCEPT ![l] = child]
        /\ stack' = [stack EXCEPT ![l] =
             <<[Frame("setShallowCopyContext", "done", child, nullptr, nullptr,
                      "FORK") EXCEPT !.ret = SwapReturn(parent, child)]>>]
  /\ UNCHANGED <<rlocks, ulock, wlock>>

\* ------------------------------------------------------ context lifetime
\* A frame of some lane holds a pointer to context c.
InFrame(c) ==
  \E l \in Lanes : \E i \in 1..Len(stack[l]) :
    c \in {stack[l][i].ctx, stack[l][i].newCtx, stack[l][i].curCtx, stack[l][i].ret}

RECURSIVE ReleaseEntries(_, _, _, _, _)
ReleaseEntries(m, l, c, keys, slot) ==
  IF keys = <<>> THEN m
  ELSE ReleaseEntries(DestructPtr(m, l, m.requestData_[c][Head(keys)], slot, FALSE),
                      l, c, Tail(keys), slot)

\* The last shared_ptr to context c is dropped by lane l: the context is
\* destroyed and with it every SharedPtr in its requestData_.
DestroyContext(l, c) ==
  /\ Idle(l)
  /\ budget[l] > 0
  /\ budget' = [budget EXCEPT ![l] = @ - 1]
  /\ c \in mem.live \ {defaultContext}
  /\ \A l2 \in Lanes : staticCtx[l2] # c
  /\ ~InFrame(c)
  /\ LET m1 == ReleaseEntries(mem, l, c, SortedSeq(DOMAIN mem.requestData_[c]),
                              staticCtx[l])
     IN mem' = [m1 EXCEPT !.live = @ \ {c},
                          !.requestData_[c] = EmptyMap,
                          !.callbackData_[c] = {}]
  /\ stack' = [stack EXCEPT ![l] =
       <<Frame("~RequestContext", "done", nullptr, nullptr, nullptr, "DESTROY")>>]
  /\ UNCHANGED <<rlocks, ulock, wlock, staticCtx>>

\* ------------------------------------------------------- calls and returns
\* The innermost call returns to its caller; when the lane's outermost call
\* returns, the lane's log of that call is dropped.
Return(l) ==
  /\ At(l, "done")
  /\ stack' = [stack EXCEPT ![l] = SubSeq(@, 1, Len(@) - 1)]
  /\ mem' = IF Len(stack[l]) = 1 THEN [mem EXCEPT !.fired[l] = <<>>] ELSE mem
  /\ UNCHANGED <<budget, rlocks, ulock, wlock, staticCtx>>

\* A RequestData whose onUnset, or whose destructor, calls clearContextData
\* for another key of the store it is being removed from: the call is made
\* from inside the callback, on the stack of the lane that runs it.
ReenterClear(l, val) ==
  /\ Busy(l)
  /\ Top(l).inHook # "none"
  /\ Len(stack[l]) < MaxDepth
  /\ val # Top(l).key
  /\ Top(l).ctx \in mem.live
  /\ stack' = [stack EXCEPT ![l] =
       Append([@ EXCEPT ![Len(@)] = [Top(l) EXCEPT !.inHook = "none"]],
              [Frame("clearContextData", "clear_ulock", Top(l).ctx, val,
                     nullptr, "CLEAR") EXCEPT !.via = Top(l).inHook,
                                              !.pre = mem])]
  /\ UNCHANGED <<budget, mem, rlocks, ulock, wlock, staticCtx>>

\* ------------------------------------------------------------------- Init
Fresh ==
  /\ mem = [requestData_ |-> [c \in Contexts |-> EmptyMap],
            callbackData_ |-> [c \in Contexts |-> {}],
            keepAliveCounter_ |-> [d \in Data |-> 0],
            hasCallback |-> [d \in Data |-> FALSE],
            deleted |-> [d \in Data |-> 0],
            dcheckFailed |-> FALSE,
            fired |-> [l \in Lanes |-> <<>>],
            live |-> {defaultContext},
            nextData |-> 1,
            nextCtx |-> defaultContext + 1]
  /\ rlocks = [c \in Contexts |-> 0]
  /\ ulock = [c \in Contexts |-> {}]
  /\ wlock = [c \in Contexts |-> {}]
  /\ staticCtx = [l \in Lanes |-> nullptr]
  /\ stack = [l \in Lanes |-> <<>>]

\* One lane's caller makes up to MaxCalls calls; the other lane makes none.
Init ==
  /\ Fresh
  /\ budget = [l \in Lanes |-> IF l = 1 THEN MaxCalls ELSE 0]

Kinds == {"null", "callback", "plain"}
Behaviours == {"SET", "SET_IF_ABSENT", "OVERWRITE"}

Next ==
  \E l \in Lanes :
    \/ \E c \in Contexts, val \in Keys, kind \in Kinds, b \in Behaviours :
         StartSet(l, c, val, kind, b)
    \/ SetULock(l)
    \/ SetUpgrade(l)
    \/ SetUnset(l)
    \/ SetReset(l)
    \/ SetUnlock(l)
    \/ SetInstall(l)
    \/ SetExit(l)
    \/ \E c \in Contexts, val \in Keys : StartClear(l, c, val)
    \/ ClearULock(l)
    \/ ClearUpgrade(l)
    \/ ClearUnset(l)
    \/ ClearErase(l)
    \/ ClearRelease(l)
    \/ \E n \in Contexts \cup {nullptr} : StartSetContext(l, n)
    \/ ScLockNew(l)
    \/ ScLockCur(l)
    \/ ScUnset(l)
    \/ ScFbUnset(l)
    \/ ScInstall(l)
    \/ ScSet(l)
    \/ ScFbSet(l)
    \/ setShallowCopyContext(l)
    \/ \E c \in Contexts : DestroyContext(l, c)
    \/ Return(l)

Spec == Init /\ [][Next]_vars

\* ------------------------------------------------- two lanes, shared data
\* The state after lane 1 has called setShallowCopyContext, then
\* setContextData(key 1, a callback-bearing X) on the child, then
\* setShallowCopyContext again, and lane 2 has called setContext on the first
\* child (slot 2) or has not (slot nullptr); every call has returned.  The
\* two children share X.
Forked(slot2) ==
  /\ mem = [requestData_ |-> [c \in Contexts |->
                                IF c \in {2, 3} THEN (1 :> 1) ELSE EmptyMap],
            callbackData_ |-> [c \in Contexts |->
                                 IF c \in {2, 3} THEN {1} ELSE {}],
            keepAliveCounter_ |-> [d \in Data |-> IF d = 1 THEN 2 ELSE 0],
            hasCallback |-> [d \in Data |-> d = 1],
            deleted |-> [d \in Data |-> 0],
            dcheckFailed |-> FALSE,
            fired |-> [l \in Lanes |-> <<>>],
            live |-> {defaultContext, 2, 3},
            nextData |-> 2,
            nextCtx |-> 4]
  /\ rlocks = [c \in Contexts |-> 0]
  /\ ulock = [c \in Contexts |-> {}]
  /\ wlock = [c \in Contexts |-> {}]
  /\ staticCtx = [l \in Lanes |-> IF l = 1 THEN 3 ELSE IF l = 2 THEN slot2
                                  ELSE nullptr]
  /\ stack = [l \in Lanes |-> <<>>]

\* From there the callers of lanes 1 and 2 make up to ConcCalls calls each,
\* the two lanes interleaved statement by statement.
InitConc ==
  /\ \E slot2 \in {nullptr, 2} : Forked(slot2)
  /\ budget = [l \in Lanes |-> IF l <= 2 THEN ConcCalls ELSE 0]

SpecConc == InitConc /\ [][Next]_vars

\* ------------------------------------- switches against mutations
\* Lanes 1 and 2 have the two forked contexts installed, one each, and call
\* setContext on either; the other lanes call overwriteContextData and
\* clearContextData on the two contexts; SwitchCalls calls per lane.
InitSwitch ==
  /\ Forked(2)
  /\ budget = [l \in Lanes |-> SwitchCalls]

Switchers == {1, 2}

NextSwitch ==
  \E l \in Lanes :
    \/ \E n \in {2, 3} : l \in Switchers /\ StartSetContext(l, n)
    \/ \E c \in {2, 3} :
         l \notin Switchers /\ StartSet(l, c, 1, "callback", "OVERWRITE")
    \/ \E c \in {2, 3} : l \notin Switchers /\ StartClear(l, c, 1)
    \/ ScLockNew(l)
    \/ ScLockCur(l)
    \/ ScUnset(l)
    \/ ScInstall(l)
    \/ ScSet(l)
    \/ SetULock(l)
    \/ SetUpgrade(l)
    \/ SetUnset(l)
    \/ SetReset(l)
    \/ SetInstall(l)
    \/ SetExit(l)
    \/ ClearULock(l)
    \/ ClearUpgrade(l)
    \/ ClearUnset(l)
    \/ ClearErase(l)
    \/ ClearRelease(l)
    \/ Return(l)

SpecSwitch == InitSwitch /\ [][NextSwitch]_vars

\* ------------------------------------------------- re-entrant callbacks
\* One lane's calls, with RequestData whose onUnset or destructor calls
\* clearContextData on the store it is removed from.
NextReent ==
  \/ Next
  \/ \E l \in Lanes, val \in Keys : ReenterClear(l, val)

SpecReent == Init /\ [][NextReent]_vars

\* ================================================================ claims
\* What a lane's log holds.
IsCallback(e) == e.cb \in {"onSet", "onUnset"}
IsOnSet(e) == e.cb = "onSet"
IsOnUnset(e) == e.cb = "onUnset"
CallbacksOf(m, l) == SelectSeq(m.fired[l], IsCallback)
DataOf(evs) == {evs[i].data : i \in 1..Len(evs)}
\* The events evs are one event on each element of S and nothing else.
OnceEach(evs, S) == Len(evs) = Cardinality(S) /\ DataOf(evs) = S

\* Lane l's outermost call is a returned call of op.
Returned(l, op) == Len(stack[l]) = 1 /\ stack[l][1].pc = "done" /\ stack[l][1].op = op

\* ---------------------------------------------------------------- C2
\* C2 as stated: whenever setContextData or overwriteContextData given a
\* non-null data has returned, has(key) is true and get(key) is that data.
C2_LastWriterWins ==
  \A l \in Lanes :
    (Returned(l, "doSetContextData")
       /\ stack[l][1].beh \in {"SET", "OVERWRITE"}
       /\ stack[l][1].arg # nullptr)
    => /\ hasContextData(mem, stack[l][1].ctx, stack[l][1].key)
       /\ getContextData(mem, stack[l][1].ctx, stack[l][1].key) = stack[l][1].arg

\* C2 amended: after overwriteContextData, and after setContextData on a key
\* that was absent, has(key) is true and get(key) is the data given; after
\* setContextData on a key that was present (with data or with an explicit
\* null), has(key) is true and get(key) is null.
C2_SetClearsPresentKey ==
  \A l \in Lanes :
    (Returned(l, "doSetContextData")
       /\ stack[l][1].beh \in {"SET", "OVERWRITE"}
       /\ stack[l][1].arg # nullptr)
    => /\ hasContextData(mem, stack[l][1].ctx, stack[l][1].key)
       /\ getContextData(mem, stack[l][1].ctx, stack[l][1].key) =
            IF stack[l][1].beh = "SET" /\ stack[l][1].conflict
            THEN nullptr ELSE stack[l][1].arg

\* A setContextData with non-null data on a present key has returned, and so
\* has, in another reachable state, an overwriteContextData.
C2_Witness ==
  \E l \in Lanes :
    /\ Returned(l, "doSetContextData")
    /\ stack[l][1].beh = "SET"
    /\ stack[l][1].conflict
    /\ stack[l][1].arg # nullptr
    /\ mem.hasCallback[stack[l][1].arg]

\* ---------------------------------------------------------------- C3
\* The part of the heap C3 compares: the entries maps, the callback sets,
\* the reference counts and the lane's sequence of callbacks.
Observed(m, l) ==
  [requestData_ |-> m.requestData_, callbackData_ |-> m.callbackData_,
   keepAliveCounter_ |-> m.keepAliveCounter_, callbacks |-> CallbacksOf(m, l)]

\* The heap the same call would have left, from the same heap, had it been
\* made with behaviour b.
Twin(l, b) ==
  doSetContextData(stack[l][1].pre, l, stack[l][1].ctx, stack[l][1].key,
                   stack[l][1].arg, b, staticCtx[l]).mem

Other(b) == IF b = "SET" THEN "OVERWRITE" ELSE "SET"

\* C3 as stated: a returned setContextData (overwriteContextData) has left
\* the entries, callback sets, reference counts and callbacks that
\* overwriteContextData (setContextData) leaves from the same state.
C3_OverwriteIsSet ==
  \A l \in Lanes :
    (Returned(l, "doSetContextData") /\ stack[l][1].beh \in {"SET", "OVERWRITE"})
    => Observed(mem, l) = Observed(Twin(l, Other(stack[l][1].beh)), l)

\* How the result s of setContextData and the result o of
\* overwriteContextData differ on a key that was present.
OnPresentKey(s, o, l, c, val, data) ==
  /\ s.requestData_[c][val] = nullptr
  /\ o.requestData_[c][val] = data
  /\ s.requestData_ = [o.requestData_ EXCEPT ![c][val] = nullptr]
  /\ s.callbackData_ = [o.callbackData_ EXCEPT ![c] = @ \ {data}]
  /\ \A d \in Data :
       IF d = data
       THEN s.keepAliveCounter_[d] = 0 /\ o.keepAliveCounter_[d] = 1
       ELSE s.keepAliveCounter_[d] = o.keepAliveCounter_[d]
  /\ CallbacksOf(o, l) =
       CallbacksOf(s, l) \o
         (IF data # nullptr /\ o.hasCallback[data]
          THEN <<Event("onSet", data, staticCtx[l], TRUE)>> ELSE <<>>)

\* C3 amended: on a key that is absent, overwriteContextData and
\* setContextData leave the same entries, callback sets, reference counts
\* and callbacks.  On a key that is present both call onUnset on the
\* displaced entry, erase it from the callback set and release it; then
\* setContextData leaves the key mapped to null and does not install its
\* data, while overwriteContextData installs it (callback set, onSet,
\* reference count 1).  The steps of a call leave what the whole function
\* computes.
C3_OverwriteIsSetOnAbsentKey ==
  \A l \in Lanes :
    (Returned(l, "doSetContextData") /\ stack[l][1].beh \in {"SET", "OVERWRITE"})
    => LET f == stack[l][1]
           twin == Twin(l, Other(f.beh))
           s == IF f.beh = "SET" THEN mem ELSE twin
           o == IF f.beh = "SET" THEN twin ELSE mem
       IN /\ Observed(mem, l) = Observed(Twin(l, f.beh), l)
          /\ IF f.conflict
             THEN OnPresentKey(s, o, l, f.ctx, f.key, f.arg)
             ELSE Observed(mem, l) = Observed(twin, l)

\* An overwriteContextData of callback-bearing data has returned that
\* displaced an entry on which it called onUnset.
C3_Witness ==
  \E l \in Lanes :
    /\ Returned(l, "doSetContextData")
    /\ stack[l][1].beh = "OVERWRITE"
    /\ stack[l][1].conflict
    /\ Len(CallbacksOf(mem, l)) = 2

\* ---------------------------------------------------------------- C4
\* The callback set of a context, an empty shared_ptr having none.
CallbackSet(c) == IF c = nullptr THEN {} ELSE mem.callbackData_[c]

\* C4: when setContext(N) has returned in a lane whose slot held C, it has
\* called onUnset once on each entry of callbackSet(C) \ callbackSet(N),
\* onSet once on each entry of callbackSet(N) \ callbackSet(C) and nothing
\* else, it returns C and N is installed; with N = C the log is empty and
\* the slot is unchanged.
C4_SwitchFiresTheDifference ==
  \A l \in Lanes :
    Returned(l, "setContext")
    => LET f == stack[l][1]
           evs == CallbacksOf(mem, l)
       IN /\ OnceEach(SelectSeq(evs, IsOnUnset),
                      CallbackSet(f.curCtx) \ CallbackSet(f.newCtx))
          /\ OnceEach(SelectSeq(evs, IsOnSet),
                      CallbackSet(f.newCtx) \ CallbackSet(f.curCtx))
          /\ \A i \in 1..Len(evs) :
               evs[i].data \notin CallbackSet(f.curCtx) \cap CallbackSet(f.newCtx)
          /\ f.ret = f.curCtx
          /\ staticCtx[l] = f.newCtx
          /\ f.newCtx = f.curCtx => mem.fired[l] = <<>>

\* A switch between two contexts has returned that called onUnset on an
\* entry of the outgoing context and onSet on one of the incoming context.
C4_Witness ==
  \E l \in Lanes :
    /\ Returned(l, "setContext")
    /\ stack[l][1].curCtx # nullptr
    /\ stack[l][1].newCtx # nullptr
    /\ CallbackSet(stack[l][1].curCtx) \ CallbackSet(stack[l][1].newCtx) # {}
    /\ CallbackSet(stack[l][1].newCtx) \ CallbackSet(stack[l][1].curCtx) # {}

\* ---------------------------------------------------------------- C5
\* C5: during setContext(N) from C every onUnset is called while the slot
\* holds C and every onSet while it holds N, no onSet precedes an onUnset,
\* and the slot holds C up to the install and N after it.
C5_UnsetBeforeInstallBeforeSet ==
  \A l \in Lanes :
    (Busy(l) /\ stack[l][1].op = "setContext")
    => LET f == stack[l][1]
           evs == CallbacksOf(mem, l)
       IN /\ \A i \in 1..Len(evs) :
               /\ evs[i].cb = "onUnset" => evs[i].slot = f.curCtx
               /\ evs[i].cb = "onSet" => evs[i].slot = f.newCtx
               /\ \A j \in 1..Len(evs) :
                    (i < j /\ evs[i].cb = "onSet") => evs[j].cb = "onSet"
          /\ f.pc \in {"sc_lock_new", "sc_lock_cur", "sc_unset", "sc_fb_unset",
                       "sc_install"} => staticCtx[l] = f.curCtx
          /\ f.pc \in {"sc_set", "sc_fb_set", "done"} => staticCtx[l] = f.newCtx

\* A switch between two contexts has returned whose log holds an onUnset
\* followed by an onSet.
C5_Witness ==
  \E l \in Lanes :
    /\ Returned(l, "setContext")
    /\ stack[l][1].curCtx # nullptr
    /\ stack[l][1].newCtx # nullptr
    /\ \E i, j \in 1..Len(mem.fired[l]) :
         i < j /\ mem.fired[l][i].cb = "onUnset" /\ mem.fired[l][j].cb = "onSet"

\* ---------------------------------------------------------- C9 and C10
\* The step in which lane l runs setShallowCopyContext.
ForkStep(l) ==
  /\ Idle(l)
  /\ stack'[l] # <<>>
  /\ stack'[l][1].op = "setShallowCopyContext"

\* The context a step makes.
Made == CHOOSE c \in mem'.live : c \notin mem.live

\* The values a context's entries hold.
Values(m, c) == {m.requestData_[c][k] : k \in DOMAIN m.requestData_[c]}

\* C9: setShallowCopyContext with a context P in the slot makes a child
\* with P's keys, for every key the very pointer P holds (null for null),
\* and P's callback set, and the reference count of every non-null value of
\* P is one higher than before.
C9_ForkSharesEntries ==
  [][\A l \in Lanes :
       (ForkStep(l) /\ staticCtx[l] # nullptr)
       => LET P == staticCtx[l]
          IN /\ DOMAIN mem'.requestData_[Made] = DOMAIN mem.requestData_[P]
             /\ \A k \in DOMAIN mem.requestData_[P] :
                  mem'.requestData_[Made][k] = mem.requestData_[P][k]
             /\ mem'.callbackData_[Made] = mem.callbackData_[P]
             /\ \A d \in Data :
                  mem'.keepAliveCounter_[d] =
                    mem.keepAliveCounter_[d]
                      + (IF d \in Values(mem, P) THEN 1 ELSE 0)]_vars

\* A setShallowCopyContext has returned whose parent holds a
\* callback-bearing entry and an explicit null.
C9_Witness ==
  \E l \in Lanes :
    /\ Returned(l, "setShallowCopyContext")
    /\ stack[l][1].ret # nullptr
    /\ nullptr \in Values(mem, stack[l][1].ret)
    /\ mem.callbackData_[stack[l][1].ret] # {}
    /\ mem.requestData_[stack[l][1].ctx] = mem.requestData_[stack[l][1].ret]

\* C10: setShallowCopyContext installs the context it makes, returns the
\* context the slot held (null when it held none), calls no onSet and no
\* onUnset, and leaves the entries and the callback set of every existing
\* context, the parent among them, unchanged.
C10_ForkInstallsSilently ==
  [][\A l \in Lanes :
       ForkStep(l)
       => /\ staticCtx'[l] = Made
          /\ stack'[l][1].ret = staticCtx[l]
          /\ mem'.fired = mem.fired
          /\ \A c \in mem.live :
               /\ mem'.requestData_[c] = mem.requestData_[c]
               /\ mem'.callbackData_[c] = mem.callbackData_[c]]_vars

\* A setShallowCopyContext has returned with a parent that has callbacks;
\* and one with no parent.
C10_Witness ==
  \E l \in Lanes :
    /\ Returned(l, "setShallowCopyContext")
    /\ stack[l][1].ret # nullptr
    /\ staticCtx[l] = stack[l][1].ctx
    /\ mem.callbackData_[stack[l][1].ctx] # {}
    /\ mem.fired[l] = <<>>

\* ---------------------------------------------------------------- C1
\* Lanes l1 and l2 are each in a setContextDataIfAbsent call for key k of
\* context c, and k was absent when each of the two calls was entered.
Racing(l1, l2) ==
  /\ l1 # l2
  /\ Len(stack[l1]) = 1
  /\ Len(stack[l2]) = 1
  /\ stack[l1][1].op = "doSetContextData"
  /\ stack[l2][1].op = "doSetContextData"
  /\ stack[l1][1].beh = "SET_IF_ABSENT"
  /\ stack[l2][1].beh = "SET_IF_ABSENT"
  /\ stack[l1][1].ctx = stack[l2][1].ctx
  /\ stack[l1][1].key = stack[l2][1].key
  /\ stack[l1][1].key \notin DOMAIN stack[l1][1].pre.requestData_[stack[l1][1].ctx]
  /\ stack[l2][1].key \notin DOMAIN stack[l2][1].pre.requestData_[stack[l2][1].ctx]

\* The two racing calls have returned.
Raced(l1, l2) ==
  Racing(l1, l2) /\ stack[l1][1].pc = "done" /\ stack[l2][1].pc = "done"

\* The events of lane l's log about data d.
EventsAbout(l, d) ==
  {i \in 1..Len(mem.fired[l]) : mem.fired[l][i].data = d}

\* The number of onSet calls on d that lane l has logged.
OnSetCount(l, d) ==
  Cardinality({i \in EventsAbout(l, d) : mem.fired[l][i].cb = "onSet"})

\* C1: when two lanes race setContextDataIfAbsent on a key that is absent,
\* exactly one call returns true; the key then maps to the winner's data,
\* which got onSet once if it has callbacks; the loser's data was not
\* installed, is in no callback set, got no callback and no reference, and
\* is deleted.
C1_ExactlyOneWins ==
  \A w, lo \in Lanes :
    Raced(w, lo)
    => /\ stack[w][1].ok # stack[lo][1].ok
       /\ stack[w][1].ok
          => LET c == stack[w][1].ctx
                 k == stack[w][1].key
                 wd == stack[w][1].arg
                 ld == stack[lo][1].arg
             IN /\ hasContextData(mem, c, k)
                /\ getContextData(mem, c, k) = wd
                /\ wd # nullptr
                   => /\ OnSetCount(w, wd) = (IF mem.hasCallback[wd] THEN 1 ELSE 0)
                      /\ OnSetCount(lo, wd) = 0
                      /\ (wd \in mem.callbackData_[c]) = mem.hasCallback[wd]
                      /\ mem.deleted[wd] = 0
                /\ ld # nullptr
                   => /\ \A x \in Contexts :
                           /\ ld \notin Values(mem, x)
                           /\ ld \notin mem.callbackData_[x]
                      /\ \A l \in Lanes : EventsAbout(l, ld) = {}
                      /\ mem.keepAliveCounter_[ld] = 0
                      /\ mem.deleted[ld] = 1

\* Two racing calls, each with callback-bearing data, have returned, and
\* the loser took the upgrade lock after the winner's install.
C1_Witness ==
  \E w, lo \in Lanes :
    /\ Raced(w, lo)
    /\ stack[w][1].arg # nullptr
    /\ stack[lo][1].arg # nullptr
    /\ mem.hasCallback[stack[w][1].arg]
    /\ mem.hasCallback[stack[lo][1].arg]
    /\ stack[w][1].ok
    /\ ~stack[lo][1].ok

\* ---------------------------------------------------------------- C6
\* The non-null values of context c's entries that have callbacks.
CallbackEntries(c) ==
  {d \in Values(mem, c) \ {nullptr} : mem.hasCallback[d]}

\* C6: whenever no lane holds a context's lock exclusively, the context's
\* callbackData_ is exactly the set of the non-null values of its
\* requestData_ that have callbacks.
C6_CallbackSetMatchesEntries ==
  \A c \in mem.live :
    wlock[c] = {} => mem.callbackData_[c] = CallbackEntries(c)

\* One lane has cleared a callback-bearing entry of a context and the other
\* lane has installed callback-bearing data in the same context, and the
\* context is unlocked.
C6_Witness ==
  \E l1, l2 \in Lanes : \E c \in mem.live :
    /\ Returned(l1, "clearContextData")
    /\ stack[l1][1].ctx = c
    /\ \E i \in 1..Len(mem.fired[l1]) : mem.fired[l1][i].cb = "onUnset"
    /\ Returned(l2, "doSetContextData")
    /\ stack[l2][1].ctx = c
    /\ stack[l2][1].ok
    /\ stack[l2][1].arg # nullptr
    /\ wlock[c] = {}
    /\ mem.callbackData_[c] = {stack[l2][1].arg}

\* ---------------------------------------------------------------- C7
\* The owning handles of d: the entries of the contexts' maps that hold d
\* and the local SharedPtr of a clearContextData in progress.
Owners(d) ==
  Cardinality({ck \in Contexts \X Keys :
                 /\ ck[2] \in DOMAIN mem.requestData_[ck[1]]
                 /\ mem.requestData_[ck[1]][ck[2]] = d})
  + Cardinality({li \in Lanes \X (1..MaxDepth) :
                   /\ li[2] <= Len(stack[li[1]])
                   /\ stack[li[1]][li[2]].requestData = d})

\* d is still owned by the unique_ptr parameter of a call in progress.
Unreleased(d) ==
  \E l \in Lanes : \E i \in 1..Len(stack[l]) :
    stack[l][i].data = d /\ stack[l][i].pc # "done"

\* C7: the reference count of every RequestData equals the number of its
\* owning handles, no decrement finds a count below 1, no RequestData is
\* deleted twice, one that is deleted has no owner left, and one that has
\* lost its last owner is deleted.
C7_CountEqualsOwners ==
  /\ ~mem.dcheckFailed
  /\ \A d \in Data :
       /\ mem.keepAliveCounter_[d] = Owners(d)
       /\ mem.keepAliveCounter_[d] >= 0
       /\ mem.deleted[d] <= 1
       /\ mem.deleted[d] = 1 => mem.keepAliveCounter_[d] = 0
       /\ (d < mem.nextData /\ mem.keepAliveCounter_[d] = 0 /\ ~Unreleased(d))
          => mem.deleted[d] = 1

\* Data shared by two contexts has been released by both lanes, once from
\* each context, and is deleted.
C7_Witness ==
  \E d \in Data :
    /\ mem.deleted[d] = 1
    /\ \E l1, l2 \in Lanes :
         /\ l1 # l2
         /\ \E i \in EventsAbout(l1, d) : mem.fired[l1][i].cb = "release"
         /\ \E i \in EventsAbout(l2, d) : mem.fired[l2][i].cb = "release"

\* ---------------------------------------------------------------- C8
\* Lane l's innermost call is a clearContextData made from inside the hook
\* (onUnset or the destructor) that an enclosing clearContextData ran.
NestedClear(l, hook) ==
  /\ Len(stack[l]) >= 2
  /\ Top(l).op = "clearContextData"
  /\ Top(l).via = hook
  /\ stack[l][Len(stack[l]) - 1].op = "clearContextData"
  /\ stack[l][Len(stack[l]) - 1].ctx = Top(l).ctx

\* Lane l's innermost call waits for a lock that lane l holds.
SelfWait(l) == At(l, "clear_ulock") /\ Holds(l, Top(l).ctx)

\* C8 as stated: a clearContextData called from the onUnset that
\* clearContextData runs never waits for a lock its lane holds.
C8_OnUnsetReentryNeverSelfWaits ==
  \A l \in Lanes : NestedClear(l, "onUnset") => ~SelfWait(l)

\* C8, amended: a clearContextData called from the destructor that
\* clearContextData runs never waits for a lock its lane holds, finds the
\* store's lock free, and sees a callbackData_ that is exactly the
\* callback-bearing non-null values of requestData_.
C8_DestructorReentryNeverSelfWaits ==
  \A l \in Lanes :
    NestedClear(l, "dtor")
    => /\ ~SelfWait(l)
       /\ At(l, "clear_ulock") => CanULock(Top(l).ctx)
       /\ Top(l).pc \in {"clear_ulock", "clear_upgrade", "clear_unset"}
          => mem.callbackData_[Top(l).ctx] = CallbackEntries(Top(l).ctx)

\* A clearContextData called from a destructor run by clearContextData has
\* removed a callback-bearing entry of the same store and is returning.
C8_Witness ==
  \E l \in Lanes :
    /\ NestedClear(l, "dtor")
    /\ Top(l).pc = "done"
    /\ Top(l).conflict
    /\ \E i \in 1..Len(mem.fired[l]) :
         mem.fired[l][i].cb = "onUnset" /\ mem.fired[l][i].locked

\* --------------------------------------------------------------- C11
\* Lane l takes a step of a setContextData, setContextDataIfAbsent,
\* overwriteContextData or clearContextData on context c.
MutationStep(l, c) ==
  /\ Busy(l)
  /\ Top(l).op \in {"doSetContextData", "clearContextData"}
  /\ Top(l).ctx = c
  /\ stack'[l] # stack[l]

\* C11: no step of a set, setIfAbsent, overwrite or clear on one context
\* changes the requestData_ or the callbackData_ of any other context,
\* parent or child.
C11_MutationsStayInTheirStore ==
  [][\A l \in Lanes : \A c \in Contexts :
       MutationStep(l, c)
       => \A x \in Contexts \ {c} :
            /\ mem'.requestData_[x] = mem.requestData_[x]
            /\ mem'.callbackData_[x] = mem.callbackData_[x]]_vars

\* A clear has removed from a forked context a callback-bearing entry that
\* the other context of the fork still holds, in its map and in its
\* callback set.
C11_Witness ==
  \E l \in Lanes : \E x \in mem.live :
    /\ Returned(l, "clearContextData")
    /\ stack[l][1].conflict
    /\ x # stack[l][1].ctx
    /\ x # defaultContext
    /\ stack[l][1].ctx # defaultContext
    /\ stack[l][1].key \in DOMAIN mem.requestData_[x]
    /\ mem.requestData_[x][stack[l][1].key] \in mem.callbackData_[x]
    /\ \E i \in 1..Len(mem.fired[l]) :
         /\ mem.fired[l][i].cb = "onUnset"
         /\ mem.fired[l][i].data = mem.requestData_[x][stack[l][1].key]

\* --------------------------------------------------------------- C12
\* What a store holds: the maps, the callback sets and the counts.
StoreOf(m) ==
  [requestData_ |-> m.requestData_, callbackData_ |-> m.callbackData_,
   keepAliveCounter_ |-> m.keepAliveCounter_]

\* C12: a setContextDataIfAbsent that has returned on a key that was
\* present, with data or with an empty SharedPtr, returned false, left the
\* maps, the callback sets and the counts as they were and called no
\* callback; on a key that was absent it returned true, the key maps to the
\* data, and the data got onSet once if it has callbacks and no other
\* callback was called.
C12_SetIfAbsentKeepsPresentKey ==
  \A l \in Lanes :
    (Returned(l, "doSetContextData") /\ stack[l][1].beh = "SET_IF_ABSENT")
    => LET f == stack[l][1]
           evs == CallbacksOf(mem, l)
       IN IF f.key \in DOMAIN f.pre.requestData_[f.ctx]
          THEN /\ ~f.ok
               /\ StoreOf(mem) = StoreOf(f.pre)
               /\ evs = <<>>
          ELSE /\ f.ok
               /\ hasContextData(mem, f.ctx, f.key)
               /\ getContextData(mem, f.ctx, f.key) = f.arg
               /\ evs = IF f.arg # nullptr /\ mem.hasCallback[f.arg]
                        THEN <<Event("onSet", f.arg, staticCtx[l], TRUE)>>
                        ELSE <<>>

\* A setContextDataIfAbsent with callback-bearing data has returned false
\* on a key that holds an empty SharedPtr.
C12_Witness ==
  \E l \in Lanes :
    /\ Returned(l, "doSetContextData")
    /\ stack[l][1].beh = "SET_IF_ABSENT"
    /\ stack[l][1].arg # nullptr
    /\ mem.hasCallback[stack[l][1].arg]
    /\ stack[l][1].key \in DOMAIN stack[l][1].pre.requestData_[stack[l][1].ctx]
    /\ stack[l][1].pre.requestData_[stack[l][1].ctx][stack[l][1].key] = nullptr

\* --------------------------------------------------------------- C13
\* The keys of context c that are present in heap m.
Present(m, c) == {k \in Keys : hasContextData(m, c, k)}

\* C13: after a set, an overwrite or a setIfAbsent that returned true the
\* key is present; after a setIfAbsent that returned false it is present as
\* it was; after a clear it is absent; and the call changed the presence of
\* no other key.
C13_HasFollowsLastMutation ==
  \A l \in Lanes :
    /\ Returned(l, "doSetContextData")
       => LET f == stack[l][1]
          IN /\ hasContextData(mem, f.ctx, f.key)
             /\ ~f.ok => hasContextData(f.pre, f.ctx, f.key)
             /\ Present(mem, f.ctx) \ {f.key} = Present(f.pre, f.ctx) \ {f.key}
    /\ Returned(l, "clearContextData")
       => LET f == stack[l][1]
          IN /\ ~hasContextData(mem, f.ctx, f.key)
             /\ Present(mem, f.ctx) \ {f.key} = Present(f.pre, f.ctx) \ {f.key}

\* A clear has returned on a key that was present with an empty SharedPtr
\* while another key of the store is present.
C13_Witness ==
  \E l \in Lanes :
    /\ Returned(l, "clearContextData")
    /\ stack[l][1].key \in DOMAIN stack[l][1].pre.requestData_[stack[l][1].ctx]
    /\ stack[l][1].pre.requestData_[stack[l][1].ctx][stack[l][1].key] = nullptr
    /\ Present(mem, stack[l][1].ctx) # {}

\* --------------------------------------------------------------- C14
\* C14: a clearContextData that has returned leaves the key absent, and
\* when the key was absent on entry it changed no map, no callback set, no
\* count and deleted nothing, and called no callback.
C14_ClearOfAbsentKeyIsNoOp ==
  \A l \in Lanes :
    Returned(l, "clearContextData")
    => LET f == stack[l][1]
       IN /\ f.key \notin DOMAIN mem.requestData_[f.ctx]
          /\ f.key \notin DOMAIN f.pre.requestData_[f.ctx]
             => /\ StoreOf(mem) = StoreOf(f.pre)
                /\ mem.deleted = f.pre.deleted
                /\ mem.fired[l] = <<>>

\* A clear has returned on a key that was absent on entry, in a store that
\* holds a callback-bearing entry under another key.
C14_Witness ==
  \E l \in Lanes :
    /\ Returned(l, "clearContextData")
    /\ stack[l][1].key \notin DOMAIN stack[l][1].pre.requestData_[stack[l][1].ctx]
    /\ mem.callbackData_[stack[l][1].ctx] # {}

\* --------------------------------------------------------------- C15
\* The context a lane sees as current when its slot holds c: c itself, or
\* the static defaultContext for an empty slot (RequestContext::get).
Current(c) == IF c = nullptr THEN defaultContext ELSE c

\* 1 when d is in the callback set of context c in heap m, else 0.
Visible(m, c, d) == IF d \in m.callbackData_[c] THEN 1 ELSE 0

\* The onSet calls less the onUnset calls on d in lane l's log.
Net(l, d) ==
  Cardinality({i \in EventsAbout(l, d) : mem.fired[l][i].cb = "onSet"})
  - Cardinality({i \in EventsAbout(l, d) : mem.fired[l][i].cb = "onUnset"})

\* The change that the call in frame f of lane l made to whether d is in
\* the callback set of the lane's current context.
VisibilityChange(l, f, d) ==
  IF f.op \in {"doSetContextData", "clearContextData"}
  THEN Visible(mem, get(l), d) - Visible(f.pre, get(l), d)
  ELSE IF f.op = "setContext"
  THEN Visible(mem, Current(f.newCtx), d) - Visible(mem, Current(f.curCtx), d)
  ELSE Visible(mem, Current(f.ctx), d) - Visible(mem, Current(f.ret), d)

\* C15 as stated: every set, setIfAbsent, overwrite, clear (on any
\* context), setContext and setShallowCopyContext that has returned has
\* called onSet on exactly the data that it made part of the callback set
\* of the lane's current context and onUnset on exactly the data that it
\* took out of it, so that the notifications of every RequestData stay
\* balanced with its visibility.
C15_NotificationsFollowVisibility ==
  \A l \in Lanes :
    (/\ Len(stack[l]) = 1
     /\ stack[l][1].pc = "done"
     /\ stack[l][1].op \in {"doSetContextData", "clearContextData",
                            "setContext", "setShallowCopyContext"})
    => \A d \in Data : Net(l, d) = VisibilityChange(l, stack[l][1], d)

\* --------------------------------------------------------------- C16
\* C16: in a clearContextData, onUnset is called while the lane holds the
\* store's lock exclusively; the entry leaves callbackData_ and
\* requestData_ in the step that ends the locked block; and the owning
\* handle is released after that, by a lane that holds no lock of the
\* store, until when the RequestData keeps its reference and is not
\* deleted.
C16_ClearReleasesAfterUnlock ==
  \A l \in Lanes :
    (Len(stack[l]) = 1 /\ stack[l][1].op = "clearContextData")
    => LET f == stack[l][1]
       IN /\ \A i \in 1..Len(mem.fired[l]) :
               /\ mem.fired[l][i].cb = "onUnset" => mem.fired[l][i].locked
               /\ mem.fired[l][i].cb = "release" => ~mem.fired[l][i].locked
          /\ f.pc \in {"clear_unset", "clear_erase"}
             => /\ l \in wlock[f.ctx]
                /\ f.key \in DOMAIN mem.requestData_[f.ctx]
                /\ \A i \in 1..Len(mem.fired[l]) : mem.fired[l][i].cb # "release"
          /\ f.pc = "clear_release"
             => /\ ~Holds(l, f.ctx)
                /\ f.key \notin DOMAIN mem.requestData_[f.ctx]
                /\ f.requestData # nullptr
                   => /\ f.requestData \notin mem.callbackData_[f.ctx]
                         \/ \E k \in DOMAIN mem.requestData_[f.ctx] :
                              mem.requestData_[f.ctx][k] = f.requestData
                      /\ mem.keepAliveCounter_[f.requestData] >= 1
                      /\ mem.deleted[f.requestData] = 0

\* A clear of a callback-bearing entry has returned: onUnset was called
\* under the lock, the handle was released without it and the RequestData
\* is deleted.
C16_Witness ==
  \E l \in Lanes : \E d \in Data :
    /\ Returned(l, "clearContextData")
    /\ mem.fired[l] = <<Event("onUnset", d, staticCtx[l], TRUE),
                        Event("release", d, staticCtx[l], FALSE)>>
    /\ mem.deleted[d] = 1

\* --------------------------------------------------------------- C17
\* C17 as stated: setContextData and overwriteContextData on a key that is
\* present release the displaced entry's handle when the lane no longer
\* holds the store's lock, and a clearContextData called from the
\* destructor that they run never waits for a lock its lane holds.
C17_SetReleasesAfterUnlock ==
  \A l \in Lanes :
    /\ (Busy(l) /\ stack[l][1].op = "doSetContextData")
       => \A i \in 1..Len(mem.fired[l]) :
            mem.fired[l][i].cb = "release" => ~mem.fired[l][i].locked
    /\ (/\ Len(stack[l]) >= 2
        /\ stack[l][Len(stack[l]) - 1].op = "doSetContextData"
        /\ Top(l).via = "dtor")
       => ~SelfWait(l)

\* --------------------------------------------------------------- C18
\* Lane l's setShallowCopyContext has returned and the slot was empty when
\* it was called.
ForkedFromEmptySlot(l) ==
  Returned(l, "setShallowCopyContext") /\ stack[l][1].ret = nullptr

\* C18 as stated: a setShallowCopyContext called with an empty slot leaves
\* the lane with a child that holds the entries and the callback set of the
\* static defaultContext.
C18_ForkCopiesDefaultContext ==
  \A l \in Lanes :
    ForkedFromEmptySlot(l)
    => /\ mem.requestData_[stack[l][1].ctx] = mem.requestData_[defaultContext]
       /\ mem.callbackData_[stack[l][1].ctx] = mem.callbackData_[defaultContext]

\* C18, amended: a setShallowCopyContext called with an empty slot installs
\* a child with no entries and an empty callback set, whatever the static
\* defaultContext holds, and takes no reference on what it holds.
C18_ForkFromEmptySlotIsEmpty ==
  \A l \in Lanes :
    ForkedFromEmptySlot(l)
    => /\ staticCtx[l] = stack[l][1].ctx
       /\ mem.requestData_[stack[l][1].ctx] = EmptyMap
       /\ mem.callbackData_[stack[l][1].ctx] = {}
       /\ \A d \in Values(mem, defaultContext) \ {nullptr} :
            mem.keepAliveCounter_[d] = Owners(d)

\* A setShallowCopyContext called with an empty slot has returned while
\* the static defaultContext holds a callback-bearing entry.
C18_Witness ==
  \E l \in Lanes :
    /\ ForkedFromEmptySlot(l)
    /\ mem.callbackData_[defaultContext] # {}

\* --------------------------------------------------------------- C19
\* Lane l is at a lock acquisition that the state of the lock refuses: a
\* shared lock while a lane holds or has claimed exclusive mode, an upgrade
\* lock while another lane holds upgrade or exclusive mode, or the upgrade
\* to exclusive while readers remain.
BlockedOnLock(l) ==
  /\ Busy(l)
  /\ \/ Top(l).pc \in {"sc_lock_new", "sc_fb_set"} /\ ~CanRLock(Top(l).newCtx)
     \/ Top(l).pc \in {"sc_lock_cur", "sc_fb_unset"} /\ ~CanRLock(Top(l).curCtx)
     \/ Top(l).pc \in {"set_ulock", "clear_ulock"} /\ ~CanULock(Top(l).ctx)
     \/ /\ Top(l).pc \in {"set_unset", "set_install", "clear_unset"}
        /\ ~Drained(Top(l).ctx)

\* C19 as stated: with lanes switching in opposite directions between two
\* contexts while other lanes mutate them, no state is reached in which
\* every lane that is in a call is blocked on a store lock.
C19_SomeLaneCanRun ==
  ~(/\ \E l \in Lanes : Busy(l)
    /\ \A l \in Lanes : Busy(l) => BlockedOnLock(l))

\* --------------------------------------------------------------- C20
\* In heap m every pointer in the callback set of a live context is to a
\* RequestData that is not deleted and has a reference.
CallbackSetsAlive(m) ==
  \A c \in m.live : \A d \in m.callbackData_[c] :
    m.deleted[d] = 0 /\ m.keepAliveCounter_[d] >= 1

\* The callbacks that a step adds to lane l's log.
NewCallbacks(l) ==
  {i \in (Len(mem.fired[l]) + 1)..Len(mem'.fired[l]) :
     mem'.fired[l][i].cb \in {"onSet", "onUnset"}}

\* C20: before and after every step, every pointer in the callback set of
\* a live context is to a RequestData that is not deleted and has a
\* reference, and every onSet and onUnset that the step calls is on a
\* RequestData that is not deleted.
C20_CallbacksOnLiveData ==
  [][/\ CallbackSetsAlive(mem)
     /\ CallbackSetsAlive(mem')
     /\ \A l \in Lanes : \A i \in NewCallbacks(l) :
          /\ mem.deleted[mem'.fired[l][i].data] = 0
          /\ mem'.deleted[mem'.fired[l][i].data] = 0]_vars

\* One lane has cleared from one context, and so released, a
\* callback-bearing RequestData that the other context still holds in its
\* callback set, and the other lane has received a callback on it.
C20_Witness ==
  \E l1, l2 \in Lanes : \E d \in Data : \E c \in mem.live :
    /\ l1 # l2
    /\ Returned(l1, "clearContextData")
    /\ \E i \in EventsAbout(l1, d) : mem.fired[l1][i].cb = "release"
    /\ d \in mem.callbackData_[c]
    /\ mem.keepAliveCounter_[d] = 1
    /\ \E i \in EventsAbout(l2, d) : mem.fired[l2][i].cb \in {"onSet", "onUnset"}

====
